---- MODULE Spec2Model ----
(***************************************************************************)
(* Mac Studio MCP server (src/app.py): the POST /mcp handler, the JSON-RPC *)
(* dispatcher process_mcp_message, the tool invoker handle_tool_call and   *)
(* its single blocking call to the remote endpoint (call_mac/run_async).   *)
(*                                                                         *)
(* JSON values are dynamically typed in the source.  A request body is a   *)
(* flat record: every key of the body has a "kind" (absent, null, ...) or  *)
(* is the marker Absent, so that the Python operations on it (dict.get,    *)
(* subscripting, truthiness, comparison) can be modelled with the          *)
(* exceptions they raise.  Strings that the code only copies are opaque    *)
(* tokens; strings that the code builds or rewrites (shell commands, the   *)
(* escaped content, formatted integers) are sequences of tokens/characters *)
(* built the way the f-strings build them.                                 *)
(*                                                                         *)
(* Bodies are those sent with a JSON content type; request.get_json()      *)
(* raises werkzeug's BadRequest on a body that does not parse.  The GET /   *)
(* probe shares no state with POST /mcp and is not modelled.               *)
(***************************************************************************)
EXTENDS Integers, Sequences, FiniteSets, TLC

VARIABLES
    TOOLS,           \* the module-level tool catalog (app.py:19)
    MAC_FUNNEL_URL,  \* the module-level remote base URL (app.py:17)
    pc,              \* per worker: "idle", "handler", "remote", "done"
    req,             \* per worker: the request body being handled
    sent,            \* per worker: the RemoteCallSpec handed to call_mac
    remoteCalls,     \* per worker: HTTP calls made to the remote for this request
    reply,           \* per worker: what the remote call produced
    resp             \* per worker: the HTTP response of mcp_handler

vars == <<TOOLS, MAC_FUNNEL_URL, pc, req, sent, remoteCalls, reply, resp>>

----------------------------------------------------------------------------
(* Bounds *)

MaxLen == 3        \* longest write_file content, in characters
MaxLines == 10     \* read_file lines ranges over -MaxLines..MaxLines
NWorkers == 2      \* request workers (threaded=True: one thread per request)

Workers == 1..NWorkers

----------------------------------------------------------------------------
(* Strings *)

Absent == "<absent>"     \* a key that the mapping does not hold

Quote == "'"
Backslash == "\\"
Letter == "a"
Chars == {Quote, Backslash, Letter}

RECURSIVE StringsOfLen(_)
StringsOfLen(n) ==
    IF n = 0 THEN {<<>>}
    ELSE {Append(s, c) : s \in StringsOfLen(n - 1), c \in Chars}

Contents == UNION {StringsOfLen(n) : n \in 0..MaxLen}

Digit(d) == CASE d = 0 -> "0" [] d = 1 -> "1" [] d = 2 -> "2" [] d = 3 -> "3"
              [] d = 4 -> "4" [] d = 5 -> "5" [] d = 6 -> "6" [] d = 7 -> "7"
              [] d = 8 -> "8" [] d = 9 -> "9"

RECURSIVE NatStr(_)
NatStr(n) == IF n < 10 THEN <<Digit(n)>> ELSE NatStr(n \div 10) \o <<Digit(n % 10)>>

\* str(n) of a Python int, as the f-strings format it
IntStr(n) == IF n < 0 THEN <<"-">> \o NatStr(0 - n) ELSE NatStr(n)

\* abs(lines)
abs(n) == IF n < 0 THEN 0 - n ELSE n

----------------------------------------------------------------------------
(* The tool catalog *)

ToolCatalog ==
    << [name |-> "run_command",     properties |-> <<"command">>,
        required |-> <<"command">>],
       [name |-> "ssh_to_pi",       properties |-> <<"command", "host", "user">>,
        required |-> <<"command">>],
       [name |-> "health_check",    properties |-> <<>>,
        required |-> <<>>],
       [name |-> "list_files",      properties |-> <<"path">>,
        required |-> <<>>],
       [name |-> "read_file",       properties |-> <<"path", "lines">>,
        required |-> <<"path">>],
       [name |-> "write_file",      properties |-> <<"path", "content", "append">>,
        required |-> <<"path", "content">>],
       [name |-> "get_system_info", properties |-> <<>>,
        required |-> <<>>] >>

DefaultUrl == "https://mac-studio-1556.tailfb6577.ts.net"

ToolNames(tools) == {tools[i].name : i \in 1..Len(tools)}

RegisteredNames == ToolNames(ToolCatalog)

----------------------------------------------------------------------------
(* Request bodies *)

\* The JSON object {} : every key absent
EmptyObject ==
    [body |-> "object", jsonrpc |-> FALSE, idKind |-> "absent", idVal |-> 0,
     method |-> Absent, paramsKind |-> "absent", name |-> Absent,
     argsKind |-> "absent", command |-> Absent, host |-> Absent, user |-> Absent,
     path |-> Absent, linesKind |-> "absent", linesVal |-> 0,
     contentKind |-> "absent", content |-> <<>>, append |-> "absent"]

\* Bodies that are not JSON objects: "malformed" does not parse; "null" is JSON
\* null; "falsy" is 0, false, "" or []; "array" is a non-empty array; "scalar"
\* is a non-zero number, true or a non-empty string.
NonObjectBodies ==
    {[EmptyObject EXCEPT !.body = b] :
        b \in {"malformed", "null", "falsy", "array", "scalar"}}

Ids == {<<"absent", 0>>, <<"null", 0>>, <<"int", 7>>}

Envelope(id, m) ==
    [EmptyObject EXCEPT !.jsonrpc = TRUE, !.idKind = id[1], !.idVal = id[2],
                        !.method = m]

OtherMethods ==
    {Absent, "initialize", "tools/list", "notifications/initialized",
     "resources/list"}

\* tools/call with params absent, null or an array
BadParamsCalls(id) ==
    {[Envelope(id, "tools/call") EXCEPT !.paramsKind = k] :
        k \in {"absent", "null", "array"}}

\* tools/call with params an object holding name n (or no name) and arguments
\* absent, null, an array, or the empty object
Call(id, n, k) ==
    [Envelope(id, "tools/call") EXCEPT !.paramsKind = "object", !.name = n,
                                       !.argsKind = k]

ShapedCalls(id) ==
    {Call(id, n, k) : n \in RegisteredNames \cup {Absent, "bogus"},
                      k \in {"absent", "null", "array", "object"}}

\* lines: null, a value that is not a number (kind "str": a non-empty string,
\* which lines < 0 rejects with TypeError), or an integer
LinesValues ==
    {<<"null", 0>>, <<"str", 0>>} \cup {<<"int", v>> : v \in (0 - MaxLines)..MaxLines}

ContentValues ==
    {<<"nonstr", <<>> >>} \cup {<<"str", c>> : c \in Contents}

\* tools/call with a non-empty arguments object, per tool
ArgumentCalls(id) ==
    {[Call(id, "run_command", "object") EXCEPT !.command = "ls -la"]}
    \cup
    {[Call(id, "ssh_to_pi", "object") EXCEPT !.command = c, !.host = h, !.user = u] :
        c \in {Absent, "uptime"}, h \in {Absent, "10.0.0.2"}, u \in {Absent, "pi"}}
    \cup
    {[Call(id, "list_files", "object") EXCEPT !.path = "/tmp"]}
    \cup
    {[Call(id, "read_file", "object") EXCEPT !.path = p, !.linesKind = l[1],
                                             !.linesVal = l[2]] :
        p \in {Absent, "/tmp/x"}, l \in LinesValues \cup {<<"absent", 0>>}}
    \cup
    {[Call(id, "write_file", "object") EXCEPT !.path = p, !.contentKind = c[1],
                                              !.content = c[2], !.append = a] :
        p \in {Absent, "/tmp/x"},
        c \in ContentValues \cup {<<"absent", <<>> >>},
        a \in {"absent", "true", "false"}}

Requests ==
    NonObjectBodies \cup {EmptyObject}
    \cup UNION {{Envelope(id, m) : m \in OtherMethods} : id \in Ids}
    \cup UNION {BadParamsCalls(id) \cup ShapedCalls(id) \cup ArgumentCalls(id) : id \in Ids}

(* Replies of the remote endpoint: a JSON object with returncode 0, with a    *)
(* non-zero returncode or without returncode, each with or without the keys   *)
(* stdout, error and stderr; a JSON value that is not an object; or an        *)
(* exception of the HTTP client (connection error, timeout, non-JSON body).   *)
ObjectReplies ==
    [kind : {"rc0", "rc_nonzero", "no_rc"}, stdout : BOOLEAN, error : BOOLEAN,
     stderr : BOOLEAN]

Fieldless(k) == [kind |-> k, stdout |-> FALSE, error |-> FALSE, stderr |-> FALSE]

RemoteOutcomes == ObjectReplies \cup {Fieldless("not_object"), Fieldless("exception")}

NoReply == Fieldless("none")

----------------------------------------------------------------------------
(* Python operations on the arguments value *)

\* params.get("arguments", {}) : the kind of the value handle_tool_call receives
ArgumentsKind(r) == IF r.argsKind = "absent" THEN "object" ELSE r.argsKind

\* key in arguments, for arguments a mapping
HasKey(r, key) ==
    CASE key = "command" -> r.command # Absent
      [] key = "host"    -> r.host # Absent
      [] key = "user"    -> r.user # Absent
      [] key = "path"    -> r.path # Absent
      [] key = "lines"   -> r.linesKind # "absent"
      [] key = "content" -> r.contentKind # "absent"
      [] key = "append"  -> r.append # "absent"

\* arguments[key] returns a value
CanSubscript(r, key) == ArgumentsKind(r) = "object" /\ HasKey(r, key)

\* str(e) of the exception arguments[key] raises otherwise
SubscriptError(r, key) ==
    CASE ArgumentsKind(r) = "null"  -> <<"'NoneType' object is not subscriptable">>
      [] ArgumentsKind(r) = "array" -> <<"list indices must be integers or slices, not str">>
      [] OTHER                      -> <<Quote, key, Quote>>

\* arguments.get(...) returns a value
CanGet(r) == ArgumentsKind(r) = "object"

\* str(e) of the AttributeError arguments.get raises otherwise
GetError(r) ==
    IF ArgumentsKind(r) = "null"
    THEN <<"'NoneType' object has no attribute 'get'">>
    ELSE <<"'list' object has no attribute 'get'">>

\* arguments.get(key, default) for a string-valued key
GetOr(value, default) == IF value = Absent THEN default ELSE value

----------------------------------------------------------------------------
(* handle_tool_call *)

\* ToolCallResult without isError
TextResult(text) == [text |-> text, isError |-> FALSE]

\* ToolCallResult of the except clause and of the failure returns
ErrorResult(text) == [text |-> text, isError |-> TRUE]

ExceptionResult(msg) == ErrorResult(<<"Error: ">> \o msg)

\* the unknown-tool return without its "isError": True
UnknownToolResult_NoFlag(name) == TextResult(<<"Unknown tool: ", name>>)

UnknownToolResult(name) == ErrorResult(<<"Unknown tool: ", name>>)

NoResult == [text |-> <<>>, isError |-> FALSE]

NoCall == [url |-> <<>>, verb |-> "", command |-> <<>>, host |-> Absent, user |-> Absent]

\* call_mac("/run", "POST", {"command": cmd})
RunCall(url, cmd) ==
    [url |-> <<url, "/run">>, verb |-> "POST", command |-> cmd,
     host |-> Absent, user |-> Absent]

SshCall(url, cmd, host, user) ==
    [url |-> <<url, "/ssh">>, verb |-> "POST", command |-> cmd,
     host |-> host, user |-> user]

HealthCall(url) ==
    [url |-> <<url, "/health">>, verb |-> "GET", command |-> <<>>,
     host |-> Absent, user |-> Absent]

\* bool(lines)
LinesTruthy(linesKind, linesVal) ==
    \/ linesKind = "int" /\ linesVal # 0
    \/ linesKind = "str"

\* lines < 0 raises TypeError for a string
LinesCompareRaises(linesKind, linesVal) ==
    LinesTruthy(linesKind, linesVal) /\ linesKind = "str"

\* read_file formatting lines itself in the tail branch, without abs()
ReadFileCommand_NoAbs(path, linesKind, linesVal) ==
    IF LinesTruthy(linesKind, linesVal)
    THEN IF linesVal < 0
         THEN <<"tail -n ">> \o IntStr(linesVal) \o <<" ", Quote, path, Quote>>
         ELSE <<"head -n ">> \o IntStr(linesVal) \o <<" ", Quote, path, Quote>>
    ELSE <<"cat ", Quote, path, Quote>>

ReadFileCommand(path, linesKind, linesVal) ==
    IF LinesTruthy(linesKind, linesVal)
    THEN IF linesVal < 0
         THEN <<"tail -n ">> \o IntStr(abs(linesVal)) \o <<" ", Quote, path, Quote>>
         ELSE <<"head -n ">> \o IntStr(linesVal) \o <<" ", Quote, path, Quote>>
    ELSE <<"cat ", Quote, path, Quote>>

\* str.replace with count 1: only the first quote is escaped
RECURSIVE Replace_FirstOnly(_)
Replace_FirstOnly(content) ==
    IF content = <<>> THEN <<>>
    ELSE IF Head(content) = Quote
    THEN <<Quote, Backslash, Quote, Quote>> \o Tail(content)
    ELSE <<Head(content)>> \o Replace_FirstOnly(Tail(content))

\* content.replace("'", "'\\''")
RECURSIVE Replace(_)
Replace(content) ==
    IF content = <<>> THEN <<>>
    ELSE (IF Head(content) = Quote
          THEN <<Quote, Backslash, Quote, Quote>>
          ELSE <<Head(content)>>) \o Replace(Tail(content))

\* bool(arguments.get("append", False))
AppendTruthy(append) == append = "true"

WriteFileCommand(path, content, append) ==
    <<"echo ", Quote>> \o Replace(content)
        \o <<Quote, " ", IF AppendTruthy(append) THEN ">>" ELSE ">", " ", Quote, path, Quote>>

ListFilesCommand(path) == <<"ls -la ", path>>

SystemInfoCommand ==
    <<"echo '=== HOSTNAME ===' && hostname && echo '=== UPTIME ===' && uptime && echo '=== CPU ===' && sysctl -n machdep.cpu.brand_string && echo '=== MEMORY ===' && vm_stat | head -5 && echo '=== DISK ===' && df -h / && echo '=== TOP PROCESSES ===' && ps aux | head -10">>

Returns(result) == [kind |-> "return", result |-> result, call |-> NoCall]
Calls(call) == [kind |-> "call", result |-> NoResult, call |-> call]

(* handle_tool_call up to its call of run_async(call_mac(...)): either the    *)
(* ToolCallResult it returns without calling (unknown tool, or an exception   *)
(* caught while the command is built), or the call it makes.                  *)
BuildCall(name, r, url) ==
    CASE name = "run_command" ->
           IF ~CanSubscript(r, "command")
           THEN Returns(ExceptionResult(SubscriptError(r, "command")))
           ELSE Calls(RunCall(url, <<r.command>>))
      [] name = "ssh_to_pi" ->
           IF ~CanSubscript(r, "command")
           THEN Returns(ExceptionResult(SubscriptError(r, "command")))
           ELSE Calls(SshCall(url, <<r.command>>, GetOr(r.host, "192.168.25.225"),
                              GetOr(r.user, "jstewartrr")))
      [] name = "health_check" -> Calls(HealthCall(url))
      [] name = "list_files" ->
           IF ~CanGet(r)
           THEN Returns(ExceptionResult(GetError(r)))
           ELSE Calls(RunCall(url, ListFilesCommand(GetOr(r.path, "~"))))
      [] name = "read_file" ->
           IF ~CanSubscript(r, "path")
           THEN Returns(ExceptionResult(SubscriptError(r, "path")))
           ELSE IF LinesCompareRaises(r.linesKind, r.linesVal)
           THEN Returns(ExceptionResult(
                    <<"'<' not supported between instances of 'str' and 'int'">>))
           ELSE Calls(RunCall(url, ReadFileCommand(r.path, r.linesKind, r.linesVal)))
      [] name = "write_file" ->
           IF ~CanSubscript(r, "path")
           THEN Returns(ExceptionResult(SubscriptError(r, "path")))
           ELSE IF ~CanSubscript(r, "content")
           THEN Returns(ExceptionResult(SubscriptError(r, "content")))
           ELSE IF r.contentKind # "str"
           THEN Returns(ExceptionResult(<<"'int' object has no attribute 'replace'">>))
           ELSE Calls(RunCall(url, WriteFileCommand(r.path, r.content, r.append)))
      [] name = "get_system_info" -> Calls(RunCall(url, SystemInfoCommand))
      [] OTHER -> Returns(UnknownToolResult(name))

\* result.get("stdout", result.get("error", str(result)))
FallbackText(o) ==
    IF o.stdout THEN <<"<stdout>">>
    ELSE IF o.error THEN <<"<error>">>
    ELSE <<"<str(result)>">>

\* result.get("returncode", 1) == 0
ReturnCodeIsZero(o) == o.kind = "rc0"

(* handle_tool_call from the return of run_async(call_mac(...)) on: the       *)
(* ToolCallResult for outcome o of the remote call.                           *)
InterpretReply(name, r, o) ==
    IF o.kind = "exception"
    THEN ExceptionResult(<<"<transport error>">>)
    ELSE IF name \in {"run_command", "ssh_to_pi", "health_check"}
    THEN TextResult(<<"<json.dumps(result)>">>)
    ELSE IF o.kind = "not_object"
    THEN ExceptionResult(<<"'list' object has no attribute 'get'">>)
    ELSE IF name = "write_file"
    THEN IF ReturnCodeIsZero(o)
         THEN TextResult(<<"Successfully wrote to ", r.path>>)
         ELSE ErrorResult(<<"Error: ", IF o.stderr THEN "<stderr>" ELSE "<str(result)>">>)
    ELSE TextResult(FallbackText(o))

----------------------------------------------------------------------------
(* process_mcp_message and mcp_handler *)

NoResponse ==
    [status |-> 0, kind |-> "none", idKind |-> "absent", idVal |-> 0, code |-> 0,
     message |-> <<>>, payload |-> "none", tools |-> <<>>, text |-> <<>>,
     isError |-> FALSE]

\* jsonify(...) of a JSON-RPC error object with the given HTTP status
ErrorResponse(status, idKind, idVal, code, message) ==
    [NoResponse EXCEPT !.status = status, !.kind = "error", !.idKind = idKind,
                       !.idVal = idVal, !.code = code, !.message = message]

ParseErrorResponse == ErrorResponse(400, "null", 0, -32700, <<"Parse error">>)

InternalFaultResponse(message) == ErrorResponse(500, "int", 1, -32603, message)

\* data.get("id", 1)
RequestId(r) == IF r.idKind = "absent" THEN <<"int", 1>> ELSE <<r.idKind, r.idVal>>

\* data.get("method", "")
Method(r) == IF r.method = Absent THEN "" ELSE r.method

\* params.get("name", "")
ToolName(r) == IF r.name = Absent THEN "" ELSE r.name

\* jsonify(...) of a JSON-RPC result object, HTTP 200
ResultResponse(r, payload) ==
    [NoResponse EXCEPT !.status = 200, !.kind = "result", !.idKind = RequestId(r)[1],
                       !.idVal = RequestId(r)[2], !.payload = payload]

\* {"tools": TOOLS}
ToolsListResult(tools) == tools

\* {"jsonrpc": "2.0", "id": request_id, "result": result} for a ToolCallResult
ToolCallResponse(r, result) ==
    [ResultResponse(r, "tool_call") EXCEPT !.text = result.text,
                                           !.isError = result.isError]

KnownMethods == {"initialize", "tools/list", "tools/call", "notifications/initialized"}

\* the branches of process_mcp_message that return without calling a tool
DispatchResponse(r, tools) ==
    CASE Method(r) = "initialize" -> ResultResponse(r, "initialize")
      [] Method(r) = "tools/list" ->
           [ResultResponse(r, "tools") EXCEPT !.tools = ToolsListResult(tools)]
      [] Method(r) = "notifications/initialized" -> ResultResponse(r, "empty")
      [] OTHER ->
           ErrorResponse(200, RequestId(r)[1], RequestId(r)[2], -32601,
                         <<"Method not found: ", Method(r)>>)

\* request.get_json() raises BadRequest
GetJsonRaises(r) == r.body = "malformed"

\* bool(data)
DataTruthy(r) ==
    CASE r.body \in {"null", "falsy"} -> FALSE
      [] r.body \in {"array", "scalar"} -> TRUE
      [] OTHER -> r # EmptyObject

\* data.get raises AttributeError: data is not a mapping
DataGetRaises(r) == r.body \in {"array", "scalar"}

\* params.get raises AttributeError: params is present and not a mapping
ParamsGetRaises(r) == r.paramsKind \in {"null", "array"}

(* mcp_handler without the blocking remote call: the response it returns, or  *)
(* the remote call handle_tool_call is about to make.                         *)
HandlerStep(r, tools, url) ==
    IF GetJsonRaises(r)
    THEN [kind |-> "respond", call |-> NoCall,
          resp |-> InternalFaultResponse(<<"400 Bad Request">>)]
    ELSE IF ~DataTruthy(r)
    THEN [kind |-> "respond", call |-> NoCall, resp |-> ParseErrorResponse]
    ELSE IF DataGetRaises(r)
    THEN [kind |-> "respond", call |-> NoCall,
          resp |-> InternalFaultResponse(<<"'list' object has no attribute 'get'">>)]
    ELSE IF Method(r) # "tools/call"
    THEN [kind |-> "respond", call |-> NoCall, resp |-> DispatchResponse(r, tools)]
    ELSE IF ParamsGetRaises(r)
    THEN [kind |-> "respond", call |-> NoCall,
          resp |-> InternalFaultResponse(<<"'NoneType' object has no attribute 'get'">>)]
    ELSE LET b == BuildCall(ToolName(r), r, url) IN
         IF b.kind = "return"
         THEN [kind |-> "respond", call |-> NoCall, resp |-> ToolCallResponse(r, b.result)]
         ELSE [kind |-> "call", call |-> b.call, resp |-> NoResponse]

----------------------------------------------------------------------------
(* The state machine: one worker thread per request *)

Init ==
    /\ TOOLS = ToolCatalog
    /\ MAC_FUNNEL_URL = DefaultUrl
    /\ pc = [w \in Workers |-> "idle"]
    /\ req = [w \in Workers |-> EmptyObject]
    /\ sent = [w \in Workers |-> NoCall]
    /\ remoteCalls = [w \in Workers |-> 0]
    /\ reply = [w \in Workers |-> NoReply]
    /\ resp = [w \in Workers |-> NoResponse]

\* Receive keeping the request in one module-level global shared by the workers
Receive_global(w, r) ==
    /\ pc[w] = "idle"
    /\ pc' = [pc EXCEPT ![w] = "handler"]
    /\ req' = [v \in Workers |-> IF v = w \/ pc[v] # "idle" THEN r ELSE req[v]]
    /\ UNCHANGED <<TOOLS, MAC_FUNNEL_URL, sent, remoteCalls, reply, resp>>

\* Flask hands a POST /mcp request with body r to worker w
Receive(w, r) ==
    /\ pc[w] = "idle"
    /\ pc' = [pc EXCEPT ![w] = "handler"]
    /\ req' = [req EXCEPT ![w] = r]
    /\ UNCHANGED <<TOOLS, MAC_FUNNEL_URL, sent, remoteCalls, reply, resp>>

\* mcp_handler runs up to its return or up to the blocking remote call
mcp_handler(w) ==
    /\ pc[w] = "handler"
    /\ LET step == HandlerStep(req[w], TOOLS, MAC_FUNNEL_URL) IN
         IF step.kind = "respond"
         THEN /\ resp' = [resp EXCEPT ![w] = step.resp]
              /\ pc' = [pc EXCEPT ![w] = "done"]
              /\ UNCHANGED sent
         ELSE /\ sent' = [sent EXCEPT ![w] = step.call]
              /\ pc' = [pc EXCEPT ![w] = "remote"]
              /\ UNCHANGED resp
    /\ UNCHANGED <<TOOLS, MAC_FUNNEL_URL, req, remoteCalls, reply>>

\* call_mac repeating its HTTP request once when the first attempt raises
call_mac_retrying(w, o) ==
    /\ pc[w] = "remote"
    /\ remoteCalls' = [remoteCalls EXCEPT ![w] = IF o.kind = "exception" THEN @ + 2 ELSE @ + 1]
    /\ reply' = [reply EXCEPT ![w] = o]
    /\ resp' = [resp EXCEPT ![w] =
                   ToolCallResponse(req[w], InterpretReply(ToolName(req[w]), req[w], o))]
    /\ pc' = [pc EXCEPT ![w] = "done"]
    /\ UNCHANGED <<TOOLS, MAC_FUNNEL_URL, req, sent>>

\* call_mac makes its one HTTP request, with outcome o, and handle_tool_call,
\* process_mcp_message and mcp_handler return
call_mac(w, o) ==
    /\ pc[w] = "remote"
    /\ remoteCalls' = [remoteCalls EXCEPT ![w] = @ + 1]
    /\ reply' = [reply EXCEPT ![w] = o]
    /\ resp' = [resp EXCEPT ![w] =
                   ToolCallResponse(req[w], InterpretReply(ToolName(req[w]), req[w], o))]
    /\ pc' = [pc EXCEPT ![w] = "done"]
    /\ UNCHANGED <<TOOLS, MAC_FUNNEL_URL, req, sent>>

\* the response is sent and the worker is free for the next request
Respond(w) ==
    /\ pc[w] = "done"
    /\ pc' = [pc EXCEPT ![w] = "idle"]
    /\ req' = [req EXCEPT ![w] = EmptyObject]
    /\ sent' = [sent EXCEPT ![w] = NoCall]
    /\ remoteCalls' = [remoteCalls EXCEPT ![w] = 0]
    /\ reply' = [reply EXCEPT ![w] = NoReply]
    /\ resp' = [resp EXCEPT ![w] = NoResponse]
    /\ UNCHANGED <<TOOLS, MAC_FUNNEL_URL>>

\* Requests handled one after the other by one worker
Next ==
    \/ \E r \in Requests : Receive(1, r)
    \/ mcp_handler(1)
    \/ \E o \in RemoteOutcomes : call_mac(1, o)
    \/ Respond(1)

Spec == Init /\ [][Next]_vars

----------------------------------------------------------------------------
(* Concurrent requests: every worker handles requests of its own *)

ConcRequests ==
    { EmptyObject,
      [EmptyObject EXCEPT !.body = "malformed"],
      Envelope(<<"absent", 0>>, "initialize"),
      Envelope(<<"int", 7>>, "tools/list"),
      Envelope(<<"int", 7>>, "resources/list"),
      [Envelope(<<"int", 7>>, "tools/call") EXCEPT !.paramsKind = "null"],
      Call(<<"int", 7>>, "bogus", "absent"),
      Call(<<"absent", 0>>, "run_command", "absent"),
      [Call(<<"int", 7>>, "run_command", "object") EXCEPT !.command = "ls -la"],
      [Call(<<"int", 7>>, "write_file", "object") EXCEPT
          !.path = "/tmp/x", !.contentKind = "str", !.content = <<Quote>>] }

ConcOutcomes ==
    { [kind |-> "rc0", stdout |-> TRUE, error |-> FALSE, stderr |-> FALSE],
      [kind |-> "rc_nonzero", stdout |-> FALSE, error |-> FALSE, stderr |-> TRUE],
      Fieldless("exception") }

NextConc ==
    \E w \in Workers :
        \/ \E r \in ConcRequests : Receive(w, r)
        \/ mcp_handler(w)
        \/ \E o \in ConcOutcomes : call_mac(w, o)
        \/ Respond(w)

SpecConc == Init /\ [][NextConc]_vars

----------------------------------------------------------------------------
(* Vocabulary of the properties *)

Done(w) == pc[w] = "done"

\* the body parsed to a non-empty JSON object, which the dispatcher receives
Dispatched(w) == req[w].body = "object" /\ DataTruthy(req[w])

IsToolCall(w) == Dispatched(w) /\ Method(req[w]) = "tools/call"

\* the dispatcher could read params: handle_tool_call was entered
Invoked(w) == IsToolCall(w) /\ ~ParamsGetRaises(req[w])

\* the remote call of this request has been made
Called(w) == remoteCalls[w] > 0

SignaledFailure(o) == o.kind # "rc0"

ResponseId(w) == <<resp[w].idKind, resp[w].idVal>>

IsParseErrorReply(w) == resp[w].status = 400 /\ resp[w].code = -32700

IsInternalFaultReply(w) == resp[w].status = 500 /\ resp[w].code = -32603

IsToolResult(w) == resp[w].status = 200 /\ resp[w].kind = "result"

----------------------------------------------------------------------------
(* C1: for a tools/call on a registered tool and every remote outcome (a     *)
(* JSON object with returncode 0, with a non-zero returncode or without      *)
(* returncode, or a transport exception), the result has isError exactly     *)
(* when the remote call signaled failure (a non-zero or absent returncode,   *)
(* or a transport exception).                                                *)
C1_IsErrorIffRemoteFailure ==
    \A w \in Workers :
        (/\ Done(w) /\ Invoked(w) /\ ToolName(req[w]) \in RegisteredNames
         /\ Called(w) /\ reply[w].kind # "not_object")
            => (resp[w].isError <=> SignaledFailure(reply[w]))

(* C2: a request whose method is tools/call, whatever the shape of params,   *)
(* name and arguments, is answered with HTTP 200 and a JSON-RPC result,      *)
(* never with the -32603 internal-fault response.                            *)
C2_ToolCallNeverInternalFault ==
    \A w \in Workers :
        (Done(w) /\ IsToolCall(w)) => (IsToolResult(w) /\ ~IsInternalFaultReply(w))

(* C3: the id of every response to a JSON-RPC request object equals the      *)
(* request's id, and 1 when the request has none.                            *)
C3_ResponseIdEchoesRequestId ==
    \A w \in Workers :
        (Done(w) /\ req[w].body = "object") => ResponseId(w) = RequestId(req[w])

(* C4: POST /mcp answers 400 with code -32700 exactly when the body fails to *)
(* parse as JSON.                                                            *)
C4_ParseErrorIffUnparsable ==
    \A w \in Workers :
        Done(w) => (IsParseErrorReply(w) <=> req[w].body = "malformed")

----------------------------------------------------------------------------
(* read_file *)

\* a read_file call with a path and lines an integer or absent, whose command
\* has been handed to call_mac
ReadFileIssued(w) ==
    /\ Invoked(w) /\ ToolName(req[w]) = "read_file"
    /\ sent[w] # NoCall
    /\ req[w].linesKind \in {"int", "absent"}

IssuedCat(w) == Head(sent[w].command) = "cat "

CommandAsClaimed(tool, n, path) == <<tool>> \o IntStr(n) \o <<" ", Quote, path, Quote>>

TailHeadAsClaimed(w) ==
    LET r == req[w] IN
    /\ sent[w].url = <<DefaultUrl, "/run">> /\ sent[w].verb = "POST"
    /\ (r.linesKind = "int" /\ r.linesVal < 0)
          => sent[w].command = CommandAsClaimed("tail -n ", 0 - r.linesVal, r.path)
    /\ (r.linesKind = "int" /\ r.linesVal > 0)
          => sent[w].command = CommandAsClaimed("head -n ", r.linesVal, r.path)
    /\ r.linesKind = "absent" => sent[w].command = <<"cat ", Quote, r.path, Quote>>
    /\ (r.linesKind = "int" /\ r.linesVal = 0 - 5 /\ r.path = "/tmp/x")
          => sent[w].command = <<"tail -n ", "5", " ", Quote, "/tmp/x", Quote>>

(* C6, as stated: tail -n abs(lines) for negative lines, head -n lines for   *)
(* positive lines, cat for absent lines, and cat only when lines is absent.  *)
C6_CatOnlyWhenLinesAbsent ==
    \A w \in Workers :
        ReadFileIssued(w) =>
            /\ TailHeadAsClaimed(w)
            /\ IssuedCat(w) => req[w].linesKind = "absent"

(* C6, amended: tail -n abs(lines) for negative lines, head -n lines for     *)
(* positive lines, and cat exactly when lines is absent or zero.             *)
C6_CatWhenLinesAbsentOrZero ==
    \A w \in Workers :
        ReadFileIssued(w) =>
            /\ TailHeadAsClaimed(w)
            /\ IssuedCat(w) <=>
                  (req[w].linesKind = "absent" \/ req[w].linesVal = 0)
            /\ IssuedCat(w) => sent[w].command = <<"cat ", Quote, req[w].path, Quote>>

C6_Witness ==
    /\ Done(1) /\ ReadFileIssued(1) /\ Called(1)
    /\ req[1].linesKind = "int" /\ req[1].linesVal = 0
    /\ sent[1].command = <<"cat ", Quote, "/tmp/x", Quote>>

----------------------------------------------------------------------------
(* write_file *)

WriteFileIssued(w) ==
    Invoked(w) /\ ToolName(req[w]) = "write_file" /\ sent[w] # NoCall

EscapeSequence == <<Quote, Backslash, Quote, Quote>>

QuotesBefore(c, i) == Cardinality({j \in 1..(i - 1) : c[j] = Quote})

QuoteCount(c) == QuotesBefore(c, Len(c) + 1)

\* where character i of the content lands in the escaped string
Landing(c, i) == i + 3 * QuotesBefore(c, i)

\* e is c with every quote replaced by the escape sequence, nothing else changed
EscapedAsClaimed(c, e) ==
    /\ Len(e) = Len(c) + 3 * QuoteCount(c)
    /\ \A i \in 1..Len(c) :
          IF c[i] = Quote
          THEN SubSeq(e, Landing(c, i), Landing(c, i) + 3) = EscapeSequence
          ELSE e[Landing(c, i)] = c[i]

Occurrences(e) ==
    Cardinality({i \in 1..(Len(e) - 3) : SubSeq(e, i, i + 3) = EscapeSequence})

\* the characters of the command between echo ' and ' <op> '<path>'
EscapedPart(cmd) == SubSeq(cmd, 3, Len(cmd) - 7)

(* C7: the command of write_file is echo '<escaped>' <op> '<path>', escaped  *)
(* being the content with every single quote replaced by '\'' and nothing    *)
(* else changed, op being >> when append is true and > when it is false or   *)
(* absent; content with k single quotes yields exactly k occurrences of '\''.*)
C7_WriteFileCommand ==
    \A w \in Workers :
        WriteFileIssued(w) =>
            LET r == req[w]
                cmd == sent[w].command
                op == IF r.append = "true" THEN ">>" ELSE ">"
            IN  /\ sent[w].url = <<DefaultUrl, "/run">> /\ sent[w].verb = "POST"
                /\ Len(cmd) >= 9
                /\ SubSeq(cmd, 1, 2) = <<"echo ", Quote>>
                /\ SubSeq(cmd, Len(cmd) - 6, Len(cmd))
                      = <<Quote, " ", op, " ", Quote, r.path, Quote>>
                /\ EscapedAsClaimed(r.content, EscapedPart(cmd))
                /\ Occurrences(EscapedPart(cmd)) = QuoteCount(r.content)

C7_Witness ==
    /\ Done(1) /\ WriteFileIssued(1)
    /\ req[1].content = <<Letter, Quote>> /\ req[1].append = "true"
    /\ sent[1].command
          = <<"echo ", Quote, Letter, Quote, Backslash, Quote, Quote, Quote,
              " ", ">>", " ", Quote, "/tmp/x", Quote>>
    /\ reply[1].kind = "rc0"
    /\ resp[1].text = <<"Successfully wrote to ", "/tmp/x">> /\ ~resp[1].isError

----------------------------------------------------------------------------
----------------------------------------------------------------------------
(* Remote calls per request *)

Range(seq) == {seq[i] : i \in 1..Len(seq)}

Required(name) ==
    Range(ToolCatalog[CHOOSE i \in 1..Len(ToolCatalog) : ToolCatalog[i].name = name].required)

\* every required argument of the tool is a key of arguments
RequiredPresent(w) == \A key \in Required(ToolName(req[w])) : CanSubscript(req[w], key)

\* the arguments can be read as the tool's schema declares them: a mapping for
\* list_files, a string content for write_file, an integer or null lines (when
\* given) for read_file
ArgumentsUsable(w) ==
    /\ ToolName(req[w]) = "list_files" => ArgumentsKind(req[w]) = "object"
    /\ ToolName(req[w]) = "write_file" => req[w].contentKind = "str"
    /\ ToolName(req[w]) = "read_file" => req[w].linesKind \in {"absent", "null", "int"}

RegisteredCall(w) == Invoked(w) /\ ToolName(req[w]) \in RegisteredNames

AtMostOneAttempt(w) ==
    /\ remoteCalls[w] <= 1
    /\ reply[w].kind = "exception" =>
          /\ Done(w) /\ remoteCalls[w] = 1
          /\ IsToolResult(w) /\ resp[w].isError
    /\ (Done(w) /\ Dispatched(w)
          /\ Method(req[w]) \in {"initialize", "tools/list", "notifications/initialized"})
          => remoteCalls[w] = 0

(* C9, as stated: at most one remote call per request and none after a       *)
(* transport exception; exactly one for a registered tool whose required     *)
(* arguments are present; none for the other known methods.                  *)
C9_OneCallWhenRequiredPresent ==
    \A w \in Workers :
        /\ AtMostOneAttempt(w)
        /\ (Done(w) /\ RegisteredCall(w) /\ RequiredPresent(w)) => remoteCalls[w] = 1

(* C9, amended: as stated, but exactly one remote call only for a registered *)
(* tool whose required arguments are present and readable as the schema      *)
(* declares: arguments a mapping (list_files), content a string (write_file),*)
(* lines an integer or null when given (read_file).                          *)
C9_OneCallWhenArgumentsUsable ==
    \A w \in Workers :
        /\ AtMostOneAttempt(w)
        /\ (Done(w) /\ RegisteredCall(w) /\ RequiredPresent(w) /\ ArgumentsUsable(w))
              => remoteCalls[w] = 1

C9_Witness ==
    /\ Done(1) /\ RegisteredCall(1) /\ RequiredPresent(1) /\ ArgumentsUsable(1)
    /\ reply[1].kind = "exception"
    /\ remoteCalls[1] = 1
    /\ resp[1].isError /\ resp[1].text = <<"Error: ", "<transport error>">>

----------------------------------------------------------------------------
(* Independence of concurrent requests *)

\* the response that the request of worker w and the remote's reply to it determine
OwnResponse(w) ==
    IF Called(w)
    THEN ToolCallResponse(req[w], InterpretReply(ToolName(req[w]), req[w], reply[w]))
    ELSE HandlerStep(req[w], ToolCatalog, DefaultUrl).resp

(* C10: under every interleaving of the workers the tool catalog and the     *)
(* remote base URL keep their initial values, tools/list returns the seven   *)
(* descriptors in catalog order with pairwise distinct names, and every      *)
(* response is the one its own request and the remote's reply to it          *)
(* determine.                                                                *)
C10_RequestsIndependent ==
    /\ TOOLS = ToolCatalog
    /\ MAC_FUNNEL_URL = DefaultUrl
    /\ Len(TOOLS) = 7 /\ Cardinality(ToolNames(TOOLS)) = 7
    /\ \A w \in Workers :
          /\ (Done(w) /\ Dispatched(w) /\ Method(req[w]) = "tools/list")
                => /\ resp[w].kind = "result"
                   /\ resp[w].tools = ToolCatalog
          /\ Done(w) => resp[w] = OwnResponse(w)
          /\ pc[w] = "remote" => sent[w] = HandlerStep(req[w], ToolCatalog, DefaultUrl).call

C10_Witness ==
    /\ Done(1) /\ Done(2)
    /\ Method(req[1]) = "tools/list" /\ resp[1].tools = ToolCatalog
    /\ IsToolCall(2) /\ reply[2].kind = "exception" /\ resp[2].isError

====
